---- MODULE Spec2Model ----
(***************************************************************************)
(* A model of the hex-grid core of bevy-hex-example:                       *)
(*   src/src/bevy_hex/hex.rs       HexCoord, Direction, DIRECTIONS         *)
(*   src/src/bevy_hex/geometry.rs  center, corners, rings, mesh buffers    *)
(*                                                                         *)
(* Spec      walks HexCoord values with the operations of hex.rs.          *)
(* MeshSpec  fills point / normal / index buffers with geometry.rs.        *)
(***************************************************************************)
EXTENDS Integers, Sequences, FiniteSets, TLC

VARIABLES
    build,      \* "debug": arithmetic overflow panics; "release": it wraps
    status,     \* "ok" | "panicked"
    started,    \* a first coordinate has been constructed
    cur,        \* the current HexCoord
    overflowed, \* some operation on the way to cur wrapped around (release)
    rt,         \* <<>> or <<r>>: the last c.neighbor(d).neighbor(d.opposite())
    iterLive,   \* a NeighborIter borrowed from cur exists
    iterPos,    \* how many entries of DIRECTIONS its slice iterator consumed
    iterDone,   \* its next() has returned None
    out,        \* the coordinates it has yielded so far
    firstOut,   \* <<>> or <<s>>: what the previous neighbors() of cur yielded
    inRadius,   \* the radius: f32 the geometry functions are called with
    inFactor,   \* the factor: f32
    inCoord,    \* the c: &HexCoord
    inOffset,   \* the offset: &[f32; 3]
    inQuad,     \* the four u32 corners quad_indices is called with
    bufPts,     \* a Vec<[f32; 3]> of points
    bufNormals, \* a Vec<[f32; 3]> of normals
    bufIdx,     \* a Vec<u32> of indices
    mesh,       \* <<>> or <<m>>: the Mesh generate_hex_mesh returned
    calls,      \* how many calls have been made
    last        \* the last call: its name, the buffers before it, its result

coordVars == <<build, status, started, cur, overflowed, rt, iterLive, iterPos,
               iterDone, out, firstOut>>

meshVars == <<inRadius, inFactor, inCoord, inOffset, inQuad, bufPts,
              bufNormals, bufIdx, mesh, calls, last>>

vars == <<coordVars, meshVars>>

(***************************************************************************)
(* isize.  The model keeps the two's complement behaviour of isize at a    *)
(* reduced width of IntBits bits.                                          *)
(***************************************************************************)
IntBits == 5

Modulus == 2 ^ IntBits
IntMin == -(2 ^ (IntBits - 1))
IntMax == (2 ^ (IntBits - 1)) - 1
ISize == IntMin..IntMax

InRange(x) == IntMin <= x /\ x <= IntMax
Wrap(x) == ((x - IntMin) % Modulus) + IntMin

\* The arithmetic of hex.rs: v is the wrapped result, o tells that the exact
\* result was not representable (a panic with overflow checks, a wrap without).
Neg(a) == [v |-> Wrap(-a), o |-> ~InRange(-a)]
Add(a, b) == [v |-> Wrap(a + b), o |-> ~InRange(a + b)]
Sub(a, b) == [v |-> Wrap(a - b), o |-> ~InRange(a - b)]

(***************************************************************************)
(* Direction                                                               *)
(***************************************************************************)
Direction == {"None", "North", "South", "Northeast", "Southwest", "Northwest",
              "Southeast"}

\* opposite with one arm of the match slipped to the neighbouring variant.
opposite_slip(d) ==
    CASE d = "None" -> "None"
      [] d = "North" -> "South"
      [] d = "South" -> "North"
      [] d = "Northeast" -> "Southeast"
      [] d = "Southwest" -> "Northeast"
      [] d = "Northwest" -> "Southeast"
      [] d = "Southeast" -> "Northwest"

opposite(d) ==
    CASE d = "None" -> "None"
      [] d = "North" -> "South"
      [] d = "South" -> "North"
      [] d = "Northeast" -> "Southwest"
      [] d = "Southwest" -> "Northeast"
      [] d = "Northwest" -> "Southeast"
      [] d = "Southeast" -> "Northwest"

\* DIRECTIONS listed counter-clockwise instead of clockwise.
DIRECTIONS_ccw == <<"North", "Northwest", "Southwest", "South", "Southeast",
                    "Northeast">>

DIRECTIONS == <<"North", "Northeast", "Southeast", "South", "Southwest",
                "Northwest">>

(***************************************************************************)
(* HexCoord.  Every operation yields [c |-> the coordinate, o |-> whether  *)
(* some step of its arithmetic overflowed].                                *)
(***************************************************************************)
HexCoord == [q : ISize, r : ISize, s : ISize]

\* new with s derived as -q + r.
new_plus(q, r) ==
    LET n == Neg(q)
        d == Add(n.v, r)
    IN  [c |-> [q |-> q, r |-> r, s |-> d.v], o |-> n.o \/ d.o]

new(q, r) ==
    LET n == Neg(q)
        d == Sub(n.v, r)
    IN  [c |-> [q |-> q, r |-> r, s |-> d.v], o |-> n.o \/ d.o]

origin == [q |-> 0, r |-> 0, s |-> 0]

north(c) ==
    LET r1 == Sub(c.r, 1)
        n == new(c.q, r1.v)
    IN  [c |-> n.c, o |-> r1.o \/ n.o]

south(c) ==
    LET r1 == Add(c.r, 1)
        n == new(c.q, r1.v)
    IN  [c |-> n.c, o |-> r1.o \/ n.o]

northeast(c) ==
    LET q1 == Add(c.q, 1)
        r1 == Sub(c.r, 1)
        n == new(q1.v, r1.v)
    IN  [c |-> n.c, o |-> q1.o \/ r1.o \/ n.o]

southwest(c) ==
    LET q1 == Sub(c.q, 1)
        r1 == Add(c.r, 1)
        n == new(q1.v, r1.v)
    IN  [c |-> n.c, o |-> q1.o \/ r1.o \/ n.o]

northwest(c) ==
    LET q1 == Sub(c.q, 1)
        n == new(q1.v, c.r)
    IN  [c |-> n.c, o |-> q1.o \/ n.o]

southeast(c) ==
    LET q1 == Add(c.q, 1)
        n == new(q1.v, c.r)
    IN  [c |-> n.c, o |-> q1.o \/ n.o]

neighbor(c, dir) ==
    CASE dir = "None" -> [c |-> c, o |-> FALSE]
      [] dir = "North" -> north(c)
      [] dir = "South" -> south(c)
      [] dir = "Northeast" -> northeast(c)
      [] dir = "Southwest" -> southwest(c)
      [] dir = "Northwest" -> northwest(c)
      [] dir = "Southeast" -> southeast(c)

(***************************************************************************)
(* f32.  A finite f32 is [m |-> mantissa, e |-> exponent], of value        *)
(* m * 2^e, with 2^23 <= |m| < 2^24, or m = 0 and e = 0 for zero (the sign *)
(* of zero is not kept: -0.0 == 0.0 in Rust).  Operations round to nearest,*)
(* ties to even, as IEEE 754 binary32 does.  Subnormals, infinities and    *)
(* NaN are outside the values the model draws.                             *)
(***************************************************************************)
F(mant, exp) == [m |-> mant, e |-> exp]

Abs(x) == IF x < 0 THEN -x ELSE x
Sgn(x) == IF x < 0 THEN -1 ELSE 1

\* The number of bits of n, 0 <= n < 2^30.
BitLen(n) == CHOOSE k \in 0..30 : n < 2 ^ k /\ (k = 0 \/ n >= 2 ^ (k - 1))

\* a / 2^k rounded to the nearest integer, ties to even (k >= 1).
RoundShift(a, k) ==
    LET q == a \div (2 ^ k)
        rem == a % (2 ^ k)
        half == 2 ^ (k - 1)
    IN  IF rem > half \/ (rem = half /\ q % 2 = 1) THEN q + 1 ELSE q

\* sign * q * 2^exp, where rounding may have carried q up to 2^24.
FPack(sign, q, exp) ==
    IF q = 2 ^ 24 THEN F(sign * (2 ^ 23), exp + 1) ELSE F(sign * q, exp)

\* sign * a * 2^exp as f32, for a > 0 of b bits.
FRoundBits(sign, a, b, exp) ==
    IF b <= 24
      THEN F(sign * a * (2 ^ (24 - b)), exp - (24 - b))
      ELSE FPack(sign, RoundShift(a, b - 24), exp + (b - 24))

\* The f32 nearest to n * 2^exp (ties to even), |n| < 2^30.
FRound(n, exp) ==
    IF n = 0 THEN F(0, 0) ELSE FRoundBits(Sgn(n), Abs(n), BitLen(Abs(n)), exp)

\* a shifted right by d bits, the bits shifted out kept as a sticky last bit.
Sticky(a, d) ==
    IF d > 27 THEN 1
    ELSE LET sh == a \div (2 ^ d)
         IN  IF a % (2 ^ d) # 0 /\ sh % 2 = 0 THEN sh + 1 ELSE sh

\* hi + lo for hi.e >= lo.e, neither zero: lo is aligned under three guard
\* bits.
FAddAligned(hi, lo) ==
    FRound(hi.m * 8 + Sgn(lo.m) * Sticky(Abs(lo.m) * 8, hi.e - lo.e), hi.e - 3)

FAdd(x, y) ==
    IF x.m = 0 THEN y
    ELSE IF y.m = 0 THEN x
    ELSE FAddAligned(IF x.e >= y.e THEN x ELSE y, IF x.e >= y.e THEN y ELSE x)

FNeg(x) == F(-x.m, x.e)

\* x - y is x + (-y) in IEEE 754.
FSub(x, y) == FAdd(x, FNeg(y))

\* The top 27 bits of the 48-bit product high * 2^24 + low, with a sticky
\* last bit.
FMulTop(high, low) ==
    LET top == high * 8 + (low \div 2097152)
    IN  IF low % 2097152 # 0 /\ top % 2 = 0 THEN top + 1 ELSE top

\* The product from the partial products hh * 2^24 + mid * 2^12 + ll.
FMulSum(hh, mid, ll) ==
    LET low == (mid % 4096) * 4096 + ll
    IN  FMulTop(hh + (mid \div 4096) + (low \div 16777216), low % 16777216)

\* a * b for 24-bit a and b, from their 12-bit halves.
FMulAbs(a, b) ==
    LET ah == a \div 4096
        al == a % 4096
        bh == b \div 4096
        bl == b % 4096
    IN  FMulSum(ah * bh, ah * bl + al * bh, al * bl)

FMul(x, y) ==
    IF x.m = 0 \/ y.m = 0 THEN F(0, 0)
    ELSE FRound(Sgn(x.m) * Sgn(y.m) * FMulAbs(Abs(x.m), Abs(y.m)),
                x.e + y.e + 21)

\* n as f32.
IntToF(n) == FRound(n, 0)

(***************************************************************************)
(* The f32 literals of geometry.rs and main.rs                             *)
(***************************************************************************)
F_0 == F(0, 0)                  \* 0.
F_0_5 == F(8388608, -24)        \* 0.5
F_1 == F(8388608, -23)          \* 1. and 1.0
F_1_5 == F(12582912, -23)       \* 1.5
F_2 == F(8388608, -22)          \* 2.
F_0_707 == F(11861492, -24)     \* 0.707    = 0.707000017166137695...
F_0_9 == F(15099494, -24)       \* 0.9      = 0.899999976158142089...
F_m10 == F(-10485760, -20)      \* -10.
\* 0.866_025_4 = 0.866025388240814208...
HEX_INNER_RADIUS_RATIO == F(14529495, -24)

(***************************************************************************)
(* geometry.rs.  A point [f32; 3] is a tuple <<x, y, z>>; a Vec is a       *)
(* sequence, and a function that fills a &mut Vec yields the filled Vec.   *)
(* A subtraction a - b is written as the addition a + (-b) it is in        *)
(* IEEE 754.                                                               *)
(***************************************************************************)
\* isize division: the quotient truncated toward zero.
TruncDiv(a, b) == Sgn(a) * Sgn(b) * (Abs(a) \div Abs(b))

\* center with the row halved by a flooring division.
center_floor(radius, c, offset) ==
    LET qf == IntToF(c.q)
        rf == IntToF(c.r)
        outer == radius
        inner == FMul(radius, HEX_INNER_RADIUS_RATIO)
        start == qf
        row_adjustment == FMul(F_0_5, rf)
        rhombus_adjustment == IntToF(-(c.r \div 2))
        x == FMul(FMul(FAdd(FAdd(start, row_adjustment), rhombus_adjustment),
                       inner), F_2)
        z == FMul(FMul(rf, outer), F_1_5)
    IN  <<FAdd(x, offset[1]), FAdd(F_0, offset[2]), FAdd(z, offset[3])>>

center(radius, c, offset) ==
    LET qf == IntToF(c.q)
        rf == IntToF(c.r)
        outer == radius
        inner == FMul(radius, HEX_INNER_RADIUS_RATIO)
        start == qf
        row_adjustment == FMul(F_0_5, rf)
        rhombus_adjustment == IntToF(-(TruncDiv(c.r, 2)))
        x == FMul(FMul(FAdd(FAdd(start, row_adjustment), rhombus_adjustment),
                       inner), F_2)
        z == FMul(FMul(rf, outer), F_1_5)
    IN  <<FAdd(x, offset[1]), FAdd(F_0, offset[2]), FAdd(z, offset[3])>>

\* [p[0] + dx, p[1] + dy, p[2] + dz]
Moved(p, dx, dy, dz) == <<FAdd(p[1], dx), FAdd(p[2], dy), FAdd(p[3], dz)>>

east_corner(radius, c, offset) ==
    Moved(center(radius, c, offset), F_0, F_0, radius)

west_corner(radius, c, offset) ==
    Moved(center(radius, c, offset), F_0, F_0, FNeg(radius))

north_east_corner(radius, c, offset) ==
    LET inner == FMul(radius, HEX_INNER_RADIUS_RATIO)
    IN  Moved(center(radius, c, offset), inner, F_0, FMul(F_0_5, radius))

north_west_corner(radius, c, offset) ==
    LET inner == FMul(radius, HEX_INNER_RADIUS_RATIO)
    IN  Moved(center(radius, c, offset), inner, F_0,
              FNeg(FMul(F_0_5, radius)))

south_east_corner(radius, c, offset) ==
    LET inner == FMul(radius, HEX_INNER_RADIUS_RATIO)
    IN  Moved(center(radius, c, offset), FNeg(inner), F_0,
              FMul(F_0_5, radius))

south_west_corner(radius, c, offset) ==
    LET inner == FMul(radius, HEX_INNER_RADIUS_RATIO)
    IN  Moved(center(radius, c, offset), FNeg(inner), F_0,
              FNeg(FMul(F_0_5, radius)))

\* flat_hexagon_ring with the corners taken clockwise.
flat_hexagon_ring_clockwise(pts, radius, c, offset) ==
    pts \o << east_corner(radius, c, offset),
              south_east_corner(radius, c, offset),
              south_west_corner(radius, c, offset),
              west_corner(radius, c, offset),
              north_west_corner(radius, c, offset),
              north_east_corner(radius, c, offset),
              east_corner(radius, c, offset) >>

flat_hexagon_ring(pts, radius, c, offset) ==
    pts \o << east_corner(radius, c, offset),
              north_east_corner(radius, c, offset),
              north_west_corner(radius, c, offset),
              west_corner(radius, c, offset),
              south_west_corner(radius, c, offset),
              south_east_corner(radius, c, offset),
              east_corner(radius, c, offset) >>

flat_hexagon_points(pts, radius, c) ==
    flat_hexagon_ring(Append(pts, center(radius, c, <<F_0, F_0, F_0>>)),
                      radius, c, <<F_0, F_0, F_0>>)

\* for _ in 0..8 { normals.push([0., 1., 0.]) }, from iteration i on.
RECURSIVE flat_hexagon_normals_from(_, _)
flat_hexagon_normals_from(normals, i) ==
    IF i < 8
      THEN flat_hexagon_normals_from(Append(normals, <<F_0, F_1, F_0>>), i + 1)
      ELSE normals

\* flat_hexagon_normals filling a fresh Vec in place of the caller's.
flat_hexagon_normals_fresh(normals) == flat_hexagon_normals_from(<<>>, 0)

flat_hexagon_normals(normals) == flat_hexagon_normals_from(normals, 0)

\* for i in 0..=6 { idx.push(0); idx.push(i + 1); idx.push(i + 2) }, from
\* iteration i on.
RECURSIVE flat_hexagon_indices_from(_, _)
flat_hexagon_indices_from(idx, i) ==
    IF i <= 6
      THEN flat_hexagon_indices_from(idx \o <<0, i + 1, i + 2>>, i + 1)
      ELSE idx

\* flat_hexagon_indices with the loop begun at 1: six triangles.
flat_hexagon_indices_six(idx) == flat_hexagon_indices_from(idx, 1)

flat_hexagon_indices(idx) == flat_hexagon_indices_from(idx, 0)

\* bevel_hexagon_points with the slope offset taken as radius - inner_radius.
bevel_hexagon_points_raised(points, radius, factor, c) ==
    LET inner_radius == FMul(radius, factor)
        top == flat_hexagon_points(points, inner_radius, c)
        slopes == flat_hexagon_ring(top, radius, c,
                                    <<F_0, FSub(radius, inner_radius), F_0>>)
    IN  flat_hexagon_ring(slopes, radius, c, <<F_0, F_m10, F_0>>)

bevel_hexagon_points(points, radius, factor, c) ==
    LET inner_radius == FMul(radius, factor)
        top == flat_hexagon_points(points, inner_radius, c)
        slopes == flat_hexagon_ring(top, radius, c,
                                    <<F_0, FSub(inner_radius, radius), F_0>>)
    IN  flat_hexagon_ring(slopes, radius, c, <<F_0, F_m10, F_0>>)

bevel_hexagon_normals(normals) ==
    LET top == flat_hexagon_normals(normals)
        c == new(0, 0).c
        slopes == flat_hexagon_ring(top, F_0_707, c, <<F_0, F_0_707, F_0>>)
    IN  flat_hexagon_ring(slopes, F_1, c, <<F_0, F_0, F_0>>)

\* quad_indices with the second triangle wound the other way.
quad_indices_flipped(idx, top_left, top_right, bottom_left, bottom_right) ==
    (idx \o <<top_left, bottom_left, bottom_right>>)
         \o <<top_left, top_right, bottom_right>>

quad_indices(idx, top_left, top_right, bottom_left, bottom_right) ==
    (idx \o <<top_left, bottom_left, bottom_right>>)
         \o <<top_left, bottom_right, top_right>>

\* for i in 0..=6 { quad_indices(idx, i + 1, i + 2, i + 8, i + 9) }
RECURSIVE bevel_slopes_from(_, _)
bevel_slopes_from(idx, i) ==
    IF i <= 6
      THEN bevel_slopes_from(quad_indices(idx, i + 1, i + 2, i + 8, i + 9), i + 1)
      ELSE idx

\* for i in 0..=6 { quad_indices(idx, i + 8, i + 9, i + 15, i + 16) }
RECURSIVE bevel_skirt_from(_, _)
bevel_skirt_from(idx, i) ==
    IF i <= 6
      THEN bevel_skirt_from(quad_indices(idx, i + 8, i + 9, i + 15, i + 16), i + 1)
      ELSE idx

\* bevel_hexagon_indices without the skirt.
bevel_hexagon_indices_noskirt(idx) ==
    bevel_slopes_from(flat_hexagon_indices(idx), 0)

bevel_hexagon_indices(idx) ==
    bevel_skirt_from(bevel_slopes_from(flat_hexagon_indices(idx), 0), 0)

\* for _ in 0..pts.len() { uvs.push([0., 0.]) }
RECURSIVE uvs_from(_, _, _)
uvs_from(uvs, i, n) ==
    IF i < n THEN uvs_from(Append(uvs, <<F_0, F_0>>), i + 1, n) ELSE uvs

\* main.rs: the Mesh of one hex, as the four buffers it is given.
mesh_of(pts, normals, indices) ==
    [indices |-> indices, positions |-> pts, normals |-> normals,
     uvs |-> uvs_from(<<>>, 0, Len(pts))]

generate_hex_mesh ==
    mesh_of(bevel_hexagon_points(<<>>, F_1, F_0_9, new(0, 0).c),
            bevel_hexagon_normals(<<>>),
            bevel_hexagon_indices(<<>>))

(***************************************************************************)
(* The coordinate walk                                                     *)
(***************************************************************************)
Builds == {"debug", "release"}

\* cur is replaced by the result res of an operation: a panic in a build with
\* overflow checks when the operation overflowed, its wrapped value otherwise.
\* cur cannot be assigned while a NeighborIter borrows it.
Assign(res) ==
    /\ status = "ok"
    /\ ~iterLive
    /\ IF res.o /\ build = "debug"
         THEN /\ status' = "panicked"
              /\ UNCHANGED <<cur, overflowed>>
         ELSE /\ cur' = res.c
              /\ overflowed' = (overflowed \/ res.o)
              /\ UNCHANGED status
    /\ started' = TRUE
    /\ rt' = <<>>
    /\ UNCHANGED <<build, iterLive, iterPos, iterDone, out, firstOut>>
    /\ UNCHANGED meshVars

\* A walk starts at HexCoord::new(q, r) or at HexCoord::origin() ...
New(q, r) == ~started /\ Assign(new(q, r))
Origin == ~started /\ Assign([c |-> origin, o |-> FALSE])
\* ... and goes on by the six steps and by neighbor(dir).
North == started /\ Assign(north(cur))
South == started /\ Assign(south(cur))
Northeast == started /\ Assign(northeast(cur))
Southwest == started /\ Assign(southwest(cur))
Northwest == started /\ Assign(northwest(cur))
Southeast == started /\ Assign(southeast(cur))
Neighbor(d) == started /\ Assign(neighbor(cur, d))

\* tests::enumerate_neighbors, one direction at a time:
\* cur.neighbor(d).neighbor(d.opposite()), for every Direction d.
RoundTrip(d) ==
    LET there == neighbor(cur, d)
        back == neighbor(there.c, opposite(d))
    IN  /\ status = "ok"
        /\ started
        /\ ~iterLive
        /\ IF build = "debug" /\ (there.o \/ back.o)
             THEN /\ status' = "panicked"
                  /\ UNCHANGED rt
             ELSE /\ rt' = << [dir |-> d, opp |-> opposite(d),
                               oppopp |-> opposite(opposite(d)),
                               from |-> cur, there |-> there.c,
                               back |-> back.c,
                               wrapped |-> there.o \/ back.o] >>
                  /\ UNCHANGED status
        /\ UNCHANGED <<build, started, cur, overflowed, iterLive, iterPos,
                       iterDone, out, firstOut>>
        /\ UNCHANGED meshVars

\* cur.neighbors(): a fresh NeighborIter over DIRECTIONS.iter().  What a
\* finished enumeration of the same coordinate yielded is kept for comparison.
Neighbors ==
    /\ status = "ok"
    /\ started
    /\ iterLive' = TRUE
    /\ iterPos' = 0
    /\ iterDone' = FALSE
    /\ out' = <<>>
    /\ firstOut' = IF iterDone THEN <<out>> ELSE firstOut
    /\ rt' = <<>>
    /\ UNCHANGED <<build, status, started, cur, overflowed>>
    /\ UNCHANGED meshVars

\* NeighborIter::next(): self.iter.next().map(|d| self.c.neighbor(*d)).
IterNext ==
    /\ status = "ok"
    /\ iterLive
    /\ IF iterPos < Len(DIRECTIONS)
         THEN LET res == neighbor(cur, DIRECTIONS[iterPos + 1])
              IN  IF res.o /\ build = "debug"
                    THEN /\ status' = "panicked"
                         /\ UNCHANGED <<iterPos, iterDone, out>>
                    ELSE /\ out' = Append(out, res.c)
                         /\ iterPos' = iterPos + 1
                         /\ UNCHANGED <<status, iterDone>>
         ELSE /\ iterDone' = TRUE
              /\ UNCHANGED <<status, iterPos, out>>
    /\ UNCHANGED <<build, started, cur, overflowed, rt, iterLive, firstOut>>
    /\ UNCHANGED meshVars

\* The iterator, and what was collected from it, go out of scope.
DropIter ==
    /\ status = "ok"
    /\ iterLive
    /\ iterLive' = FALSE
    /\ iterPos' = 0
    /\ iterDone' = FALSE
    /\ out' = <<>>
    /\ firstOut' = <<>>
    /\ UNCHANGED <<build, status, started, cur, overflowed, rt>>
    /\ UNCHANGED meshVars

(***************************************************************************)
(* The mesh buffers                                                        *)
(***************************************************************************)
MaxCalls == 2

F_0_25 == F(8388608, -25)       \* 0.25
F_2_5 == F(10485760, -22)       \* 2.5

\* The inputs the calls are made with: rows r that are zero, even and odd of
\* either sign, radii and factors whose products round.
Radii == {F_1, F_2_5}
Factors == {F_0_9, F_0_5}
Coords == {new(0, 0).c, new(1, -1).c, new(-2, 3).c, new(2, -3).c,
           new(-1, -2).c, new(3, 2).c}
Offsets == {<<F_0, F_0, F_0>>, <<F_0_25, F_m10, F_1_5>>}
Quads == {<<0, 1, 2, 3>>, <<21, 20, 4, 4>>}

NoCall == [op |-> "none", pts |-> <<>>, normals |-> <<>>, idx |-> <<>>,
           ret |-> <<>>]

\* The call named op is made on the buffers as they are; ret is what it returns.
Called(op, ret) ==
    [op |-> op, pts |-> bufPts, normals |-> bufNormals, idx |-> bufIdx,
     ret |-> ret]

Center ==
    /\ calls < MaxCalls
    /\ calls' = calls + 1
    /\ last' = Called("center", center(inRadius, inCoord, inOffset))
    /\ UNCHANGED <<inRadius, inFactor, inCoord, inOffset, inQuad, bufPts,
                   bufNormals, bufIdx, mesh>>
    /\ UNCHANGED coordVars

FlatHexagonRing ==
    /\ calls < MaxCalls
    /\ calls' = calls + 1
    /\ bufPts' = flat_hexagon_ring(bufPts, inRadius, inCoord, inOffset)
    /\ last' = Called("flat_hexagon_ring", <<>>)
    /\ UNCHANGED <<inRadius, inFactor, inCoord, inOffset, inQuad, bufNormals,
                   bufIdx, mesh>>
    /\ UNCHANGED coordVars

FlatHexagonPoints ==
    /\ calls < MaxCalls
    /\ calls' = calls + 1
    /\ bufPts' = flat_hexagon_points(bufPts, inRadius, inCoord)
    /\ last' = Called("flat_hexagon_points", <<>>)
    /\ UNCHANGED <<inRadius, inFactor, inCoord, inOffset, inQuad, bufNormals,
                   bufIdx, mesh>>
    /\ UNCHANGED coordVars

FlatHexagonNormals ==
    /\ calls < MaxCalls
    /\ calls' = calls + 1
    /\ bufNormals' = flat_hexagon_normals(bufNormals)
    /\ last' = Called("flat_hexagon_normals", <<>>)
    /\ UNCHANGED <<inRadius, inFactor, inCoord, inOffset, inQuad, bufPts,
                   bufIdx, mesh>>
    /\ UNCHANGED coordVars

FlatHexagonIndices ==
    /\ calls < MaxCalls
    /\ calls' = calls + 1
    /\ bufIdx' = flat_hexagon_indices(bufIdx)
    /\ last' = Called("flat_hexagon_indices", <<>>)
    /\ UNCHANGED <<inRadius, inFactor, inCoord, inOffset, inQuad, bufPts,
                   bufNormals, mesh>>
    /\ UNCHANGED coordVars

BevelHexagonPoints ==
    /\ calls < MaxCalls
    /\ calls' = calls + 1
    /\ bufPts' = bevel_hexagon_points(bufPts, inRadius, inFactor, inCoord)
    /\ last' = Called("bevel_hexagon_points", <<>>)
    /\ UNCHANGED <<inRadius, inFactor, inCoord, inOffset, inQuad, bufNormals,
                   bufIdx, mesh>>
    /\ UNCHANGED coordVars

BevelHexagonNormals ==
    /\ calls < MaxCalls
    /\ calls' = calls + 1
    /\ bufNormals' = bevel_hexagon_normals(bufNormals)
    /\ last' = Called("bevel_hexagon_normals", <<>>)
    /\ UNCHANGED <<inRadius, inFactor, inCoord, inOffset, inQuad, bufPts,
                   bufIdx, mesh>>
    /\ UNCHANGED coordVars

QuadIndices ==
    /\ calls < MaxCalls
    /\ calls' = calls + 1
    /\ bufIdx' = quad_indices(bufIdx, inQuad[1], inQuad[2], inQuad[3], inQuad[4])
    /\ last' = Called("quad_indices", <<>>)
    /\ UNCHANGED <<inRadius, inFactor, inCoord, inOffset, inQuad, bufPts,
                   bufNormals, mesh>>
    /\ UNCHANGED coordVars

BevelHexagonIndices ==
    /\ calls < MaxCalls
    /\ calls' = calls + 1
    /\ bufIdx' = bevel_hexagon_indices(bufIdx)
    /\ last' = Called("bevel_hexagon_indices", <<>>)
    /\ UNCHANGED <<inRadius, inFactor, inCoord, inOffset, inQuad, bufPts,
                   bufNormals, mesh>>
    /\ UNCHANGED coordVars

\* main.rs: its buffers are its own, the caller's are not touched.
GenerateHexMesh ==
    /\ calls < MaxCalls
    /\ calls' = calls + 1
    /\ mesh' = <<generate_hex_mesh>>
    /\ last' = Called("generate_hex_mesh", <<>>)
    /\ UNCHANGED <<inRadius, inFactor, inCoord, inOffset, inQuad, bufPts,
                   bufNormals, bufIdx>>
    /\ UNCHANGED coordVars

(***************************************************************************)
(* The specifications                                                      *)
(***************************************************************************)
\* The coordinate walk: the build is either one, no geometry call is made.
Init ==
    /\ build \in Builds
    /\ status = "ok"
    /\ started = FALSE
    /\ cur = origin
    /\ overflowed = FALSE
    /\ rt = <<>>
    /\ iterLive = FALSE
    /\ iterPos = 0
    /\ iterDone = FALSE
    /\ out = <<>>
    /\ firstOut = <<>>
    /\ inRadius = F_1
    /\ inFactor = F_0_9
    /\ inCoord = origin
    /\ inOffset = <<F_0, F_0, F_0>>
    /\ inQuad = <<0, 1, 2, 3>>
    /\ bufPts = <<>>
    /\ bufNormals = <<>>
    /\ bufIdx = <<>>
    /\ mesh = <<>>
    /\ calls = 0
    /\ last = NoCall

Next ==
    \/ \E q \in ISize, r \in ISize : New(q, r)
    \/ Origin
    \/ North
    \/ South
    \/ Northeast
    \/ Southwest
    \/ Northwest
    \/ Southeast
    \/ \E d \in Direction : Neighbor(d)
    \/ \E d \in Direction : RoundTrip(d)
    \/ Neighbors
    \/ IterNext
    \/ DropIter

Spec == Init /\ [][Next]_vars

MeshNext ==
    \/ Center
    \/ FlatHexagonRing
    \/ FlatHexagonPoints
    \/ FlatHexagonNormals
    \/ FlatHexagonIndices
    \/ BevelHexagonPoints
    \/ BevelHexagonNormals
    \/ QuadIndices
    \/ BevelHexagonIndices
    \/ GenerateHexMesh

\* The mesh buffers: the inputs are drawn, the buffers are empty, no coordinate
\* is walked.
MeshInit ==
    /\ inRadius \in Radii
    /\ inFactor \in Factors
    /\ inCoord \in Coords
    /\ inOffset \in Offsets
    /\ inQuad \in Quads
    /\ bufPts = <<>>
    /\ bufNormals = <<>>
    /\ bufIdx = <<>>
    /\ mesh = <<>>
    /\ calls = 0
    /\ last = NoCall
    /\ build = "release"
    /\ status = "ok"
    /\ started = FALSE
    /\ cur = origin
    /\ overflowed = FALSE
    /\ rt = <<>>
    /\ iterLive = FALSE
    /\ iterPos = 0
    /\ iterDone = FALSE
    /\ out = <<>>
    /\ firstOut = <<>>

MeshSpec == MeshInit /\ [][MeshNext]_vars

(***************************************************************************)
(* Properties of the coordinate walk                                       *)
(***************************************************************************)
Sum(c) == c.q + c.r + c.s

\* Every coordinate the walk holds: cur, what the iterator yielded, and the
\* two coordinates of the last round trip.
Held ==
    {cur} \cup {out[i] : i \in 1..Len(out)}
          \cup {rt[i].there : i \in 1..Len(rt)}
          \cup {rt[i].back : i \in 1..Len(rt)}

\* C1: every coordinate reached from origin() or new(q, r) by steps and
\* neighbor(d) satisfies q + r + s == 0 in the arithmetic of the build that
\* produced it (isize, wrapping where the build wraps), and q + r + s is
\* exactly 0 whenever no operation on the way to cur overflowed.
C1_ZeroSum ==
    (started /\ status = "ok") =>
        /\ \A c \in Held : Wrap(Sum(c)) = 0
        /\ ~overflowed => Sum(cur) = 0

\* A coordinate away from the origin, with a northeast neighbour computed.
C1_Witness ==
    /\ status = "ok"
    /\ cur = [q |-> 2, r |-> -3, s |-> 1]
    /\ rt # <<>>
    /\ rt[1].dir = "Northeast"
    /\ rt[1].there = [q |-> 3, r |-> -4, s |-> 1]

\* C2: c.neighbor(d).neighbor(d.opposite()) == c in all three components
\* for every direction d; opposite is an involution; None is its own
\* opposite and c.neighbor(None) == c.
C2_RoundTrip ==
    \A i \in 1..Len(rt) :
        /\ rt[i].oppopp = rt[i].dir
        /\ rt[i].back = rt[i].from
        /\ rt[i].dir = "None" => (rt[i].opp = "None" /\ rt[i].there = rt[i].from)
        /\ rt[i].dir # "None" => (rt[i].opp # rt[i].dir /\ rt[i].there # rt[i].from)

\* A round trip over a real step away from a coordinate off the origin.
C2_Witness ==
    /\ rt # <<>>
    /\ rt[1].dir = "Southwest"
    /\ rt[1].opp = "Northeast"
    /\ rt[1].from = [q |-> -4, r |-> 7, s |-> -3]
    /\ rt[1].there = [q |-> -5, r |-> 8, s |-> -3]
    /\ rt[1].back = rt[1].from

\* The order of the claim, written out.
C3_Clockwise == <<"North", "Northeast", "Southeast", "South", "Southwest",
                  "Northwest">>

C3_OriginNeighbors ==
    << [q |-> 0, r |-> -1, s |-> 1], [q |-> 1, r |-> -1, s |-> 0],
       [q |-> 1, r |-> 0, s |-> -1], [q |-> 0, r |-> 1, s |-> -1],
       [q |-> -1, r |-> 1, s |-> 0], [q |-> -1, r |-> 0, s |-> 1] >>

\* C3: c.neighbors() yields exactly 6 coordinates and then ends, the k-th
\* being c.neighbor(d) for the k-th d of North, Northeast, Southeast, South,
\* Southwest, Northwest; for the origin these are the six listed
\* coordinates; a second neighbors() on the same coordinate yields the same
\* sequence.
C3_Neighbors ==
    /\ Len(out) <= 6
    /\ \A k \in 1..Len(out) : out[k] = neighbor(cur, C3_Clockwise[k]).c
    /\ iterDone => Len(out) = 6
    /\ (iterDone /\ cur = origin) => out = C3_OriginNeighbors
    /\ (iterDone /\ firstOut # <<>>) => firstOut[1] = out

\* The origin enumerated to its end for the second time.
C3_Witness ==
    /\ status = "ok"
    /\ cur = origin
    /\ iterDone
    /\ Len(out) = 6
    /\ firstOut # <<>>

\* C10: new(q, r) and the six steps never fail and never overflow, for every
\* q and r of the integer width, and leave q + r + s == 0.
C10_TotalForEveryInput ==
    /\ status = "ok"
    /\ ~overflowed
    /\ Sum(cur) = 0

(***************************************************************************)
(* Properties of the mesh buffers                                          *)
(***************************************************************************)
\* What the last call appended to a buffer that held pre before it.
Appended(buf, pre) == SubSeq(buf, Len(pre) + 1, Len(buf))

\* C4: from an empty buffer bevel_hexagon_points leaves exactly 22 points,
\* bevel_hexagon_normals exactly 22 normals (as many as the points) and
\* bevel_hexagon_indices exactly 105 indices, 3 * (7 + 14 + 14), for any
\* radius, factor and coordinate; the mesh of main.rs has these lengths.
C4_BevelCounts ==
    /\ (last.op = "bevel_hexagon_points" /\ last.pts = <<>>) =>
           Len(bufPts) = 22
    /\ (last.op = "bevel_hexagon_normals" /\ last.normals = <<>>) =>
           /\ Len(bufNormals) = 22
           /\ bufPts = bevel_hexagon_points(<<>>, inRadius, inFactor, inCoord)
                  => Len(bufNormals) = Len(bufPts)
    /\ (last.op = "bevel_hexagon_indices" /\ last.idx = <<>>) =>
           /\ Len(bufIdx) = 105
           /\ Len(bufIdx) = 3 * (7 + 14 + 14)
    /\ mesh # <<>> =>
           /\ Len(mesh[1].positions) = 22
           /\ Len(mesh[1].normals) = Len(mesh[1].positions)
           /\ Len(mesh[1].indices) = 105

\* The 105 indices of a beveled hexagon beside its 22 points.
C4_Witness ==
    /\ last.op = "bevel_hexagon_indices"
    /\ last.idx = <<>>
    /\ Len(bufIdx) = 105
    /\ Len(bufPts) = 22

\* The fan of the claim, written out.
C5_Fan == <<0, 1, 2,  0, 2, 3,  0, 3, 4,  0, 4, 5,  0, 5, 6,  0, 6, 7,
            0, 7, 8>>

\* C5: flat_hexagon_indices appends exactly the 7 triangles (0, i+1, i+2),
\* i = 0..6, whose largest index is 8; every index is in range exactly when
\* the point buffer has at least 9 entries, as the 22 of a beveled hexagon
\* have, and index 8 is out of range for the 8 points flat_hexagon_points
\* leaves in an empty buffer.
C5_FlatFan ==
    last.op = "flat_hexagon_indices" =>
        LET fan == Appended(bufIdx, last.idx)
        IN  /\ fan = C5_Fan
            /\ Len(fan) = 3 * 7
            /\ \A k \in 1..Len(fan) : fan[k] <= 8
            /\ (\A k \in 1..Len(fan) : fan[k] < Len(bufPts))
                   <=> Len(bufPts) >= 9
            /\ bufPts = bevel_hexagon_points(<<>>, inRadius, inFactor, inCoord)
                   => \A k \in 1..Len(fan) : fan[k] < Len(bufPts)
            /\ bufPts = flat_hexagon_points(<<>>, inRadius, inCoord)
                   => /\ Len(bufPts) = 8
                      /\ fan[21] = 8
                      /\ ~(fan[21] < Len(bufPts))

\* The fan beside the 8 points of a flat hexagon.
C5_Witness ==
    /\ last.op = "flat_hexagon_indices"
    /\ last.idx = <<>>
    /\ bufPts = flat_hexagon_points(<<>>, inRadius, inCoord)
    /\ Len(bufIdx) = 21
    /\ bufIdx[21] = 8

\* The heights of the three bands of a 22-point buffer.
C6_Heights(pts, top, slope, skirt) ==
    /\ Len(pts) = 22
    /\ \A k \in 1..8 : pts[k][2] = top
    /\ \A k \in 9..15 : pts[k][2] = slope
    /\ \A k \in 16..22 : pts[k][2] = skirt

\* -0.1 as an f32, and 0.9 - 1.0 as f32 arithmetic gives it, three units in
\* the last place below: -0.100000001490116 and -0.100000023841858.
C6_TenthLiteral == F(-13421773, -27)
C6_TenthComputed == F(-13421776, -27)

\* C6 as stated: the bands are at 0, radius*factor - radius and -10, and for
\* radius 1.0, factor 0.9 at (0, 0) at 0, -0.1 and -10.
C6_AsStated ==
    /\ (last.op = "bevel_hexagon_points" /\ last.pts = <<>>) =>
           C6_Heights(bufPts, F_0, FSub(FMul(inRadius, inFactor), inRadius),
                      F_m10)
    /\ mesh # <<>> =>
           C6_Heights(mesh[1].positions, F_0, C6_TenthLiteral, F_m10)

\* C6: in the 22 points bevel_hexagon_points leaves in an empty buffer,
\* points 0..7 have y = 0, points 8..14 have y = radius*factor - radius as
\* f32 arithmetic computes it, and points 15..21 have y = -10, for every
\* coordinate; for radius 1.0, factor 0.9 at (0, 0) the heights are 0,
\* 0.9f32 - 1.0f32 = -0.100000024 (not the f32 nearest -0.1) and -10.
C6_BevelHeights ==
    /\ (last.op = "bevel_hexagon_points" /\ last.pts = <<>>) =>
           C6_Heights(bufPts, F_0, FSub(FMul(inRadius, inFactor), inRadius),
                      F_m10)
    /\ mesh # <<>> =>
           /\ C6_Heights(mesh[1].positions, F_0, C6_TenthComputed, F_m10)
           /\ C6_TenthComputed = FSub(FMul(F_1, F_0_9), F_1)
           /\ C6_TenthComputed # C6_TenthLiteral

\* The mesh of main.rs: radius 1.0, factor 0.9 at (0, 0).
C6_Witness ==
    /\ mesh # <<>>
    /\ last.op = "generate_hex_mesh"
    /\ mesh[1].positions[9][2] = C6_TenthComputed
    /\ mesh[1].positions[16][2] = F_m10

\* 2q + r - 2*trunc(r/2): r is cancelled on even rows, and leaves its sign
\* on odd ones.
C7_Column(c) ==
    IF c.r % 2 = 0 THEN 2 * c.q
    ELSE IF c.r > 0 THEN 2 * c.q + 1 ELSE 2 * c.q - 1

\* C7: center(radius, c, offset) is x = (q + 0.5*r - trunc(r/2)) * 2 * inner
\* + offset.x, y = offset.y and z = r * radius * 1.5 + offset.z, the column
\* term being 2q - 1 on negative odd rows; the centre of the origin with no
\* offset is [0, 0, 0].
C7_Center ==
    last.op = "center" =>
        LET inner == FMul(inRadius, HEX_INNER_RADIUS_RATIO)
            x == FMul(IntToF(C7_Column(inCoord)), inner)
            z == FMul(FMul(IntToF(inCoord.r), inRadius), F_1_5)
        IN  /\ last.ret[1] = FAdd(x, inOffset[1])
            /\ last.ret[2] = inOffset[2]
            /\ last.ret[3] = FAdd(z, inOffset[3])
            /\ (inCoord = origin /\ inOffset = <<F_0, F_0, F_0>>) =>
                   last.ret = <<F_0, F_0, F_0>>

\* The centre of a hexagon on a negative odd row, shifted by an offset.
C7_Witness ==
    /\ last.op = "center"
    /\ inCoord = [q |-> 2, r |-> -3, s |-> 1]
    /\ inOffset # <<F_0, F_0, F_0>>
    /\ last.ret[1] = FAdd(FMul(IntToF(3), FMul(inRadius,
                                               HEX_INNER_RADIUS_RATIO)),
                          inOffset[1])

\* C8: quad_indices appends exactly the 6 indices top_left, bottom_left,
\* bottom_right, top_left, bottom_right, top_right, in that order; with
\* (0, 1, 2, 3) on an empty buffer the buffer is [0, 2, 3, 0, 3, 1].
C8_Quad ==
    last.op = "quad_indices" =>
        LET top_left == inQuad[1]
            top_right == inQuad[2]
            bottom_left == inQuad[3]
            bottom_right == inQuad[4]
        IN  /\ SubSeq(bufIdx, 1, Len(last.idx)) = last.idx
            /\ Appended(bufIdx, last.idx) =
                   <<top_left, bottom_left, bottom_right,
                     top_left, bottom_right, top_right>>
            /\ (inQuad = <<0, 1, 2, 3>> /\ last.idx = <<>>) =>
                   bufIdx = <<0, 2, 3, 0, 3, 1>>

\* The quad (0, 1, 2, 3) in an empty buffer.
C8_Witness ==
    /\ last.op = "quad_indices"
    /\ last.idx = <<>>
    /\ inQuad = <<0, 1, 2, 3>>
    /\ bufIdx = <<0, 2, 3, 0, 3, 1>>

\* The point at (dx, dz) from p, at the height of p.
C9_At(p, dx, dz) == <<FAdd(p[1], dx), p[2], FAdd(p[3], dz)>>

\* C9: flat_hexagon_ring appends exactly 7 points, east, north_east,
\* north_west, west, south_west, south_east, east, each the centre moved by
\* its (dx, dz): (0, +radius), (+inner, +radius/2), (+inner, -radius/2),
\* (0, -radius), (-inner, -radius/2), (-inner, +radius/2), at the height of
\* the centre; the first and the last are equal.
C9_Ring ==
    last.op = "flat_hexagon_ring" =>
        LET ring == Appended(bufPts, last.pts)
            ctr == center(inRadius, inCoord, inOffset)
            inner == FMul(inRadius, HEX_INNER_RADIUS_RATIO)
            half == FMul(F_0_5, inRadius)
        IN  /\ SubSeq(bufPts, 1, Len(last.pts)) = last.pts
            /\ Len(ring) = 7
            /\ ring[1] = C9_At(ctr, F_0, inRadius)
            /\ ring[2] = C9_At(ctr, inner, half)
            /\ ring[3] = C9_At(ctr, inner, FNeg(half))
            /\ ring[4] = C9_At(ctr, F_0, FNeg(inRadius))
            /\ ring[5] = C9_At(ctr, FNeg(inner), FNeg(half))
            /\ ring[6] = C9_At(ctr, FNeg(inner), half)
            /\ ring[7] = ring[1]
            /\ ring[2] # ring[6]

\* A ring around a hexagon off the origin, shifted by an offset.
C9_Witness ==
    /\ last.op = "flat_hexagon_ring"
    /\ inCoord = [q |-> -2, r |-> 3, s |-> -1]
    /\ inOffset # <<F_0, F_0, F_0>>
    /\ Len(bufPts) = 7
    /\ bufPts[1] = bufPts[7]
    /\ bufPts[4] # bufPts[1]

\* The indices of seq that are no index of a buffer of n entries.
OutOfRange(seq, n) == {k \in 1..Len(seq) : ~(seq[k] \in 0..(n - 1))}

\* C11: every index bevel_hexagon_indices leaves in an empty buffer names an
\* entry of the 22 points and 22 normals of a beveled hexagon, that is, lies
\* in 0..21; the indices of the mesh of main.rs name only its vertices.
C11_IndicesInRange ==
    /\ (last.op = "bevel_hexagon_indices" /\ last.idx = <<>>) =>
           /\ Len(bufIdx) = 105
           /\ OutOfRange(bufIdx, 22) = {}
    /\ mesh # <<>> =>
           /\ OutOfRange(mesh[1].indices, Len(mesh[1].positions)) = {}
           /\ OutOfRange(mesh[1].indices, Len(mesh[1].normals)) = {}

\* The corners of the quad whose 6 indices follow the first base indices.
C12_QuadAt(idx, base) ==
    [top_left |-> idx[base + 1], top_right |-> idx[base + 6],
     bottom_left |-> idx[base + 2], bottom_right |-> idx[base + 3]]

\* The quad has its top corners in one band and its bottom corners in another.
C12_Spans(quad, top, bottom) ==
    /\ {quad.top_left, quad.top_right} \subseteq top
    /\ {quad.bottom_left, quad.bottom_right} \subseteq bottom

\* C12: for every i in 0..6 the i-th slope quad of bevel_hexagon_indices is
\* (i+1, i+2, i+8, i+9) with its top corners among the top ring 1..7 and its
\* bottom corners among the slope ring 8..14, and the i-th skirt quad is
\* (i+8, i+9, i+15, i+16) with its top corners among the slope ring 8..14
\* and its bottom corners among the skirt ring 15..21.
C12_BandStructure ==
    (last.op = "bevel_hexagon_indices" /\ last.idx = <<>>) =>
        \A i \in 0..6 :
            LET slope == C12_QuadAt(bufIdx, 21 + 6 * i)
                skirt == C12_QuadAt(bufIdx, 63 + 6 * i)
            IN  /\ slope = [top_left |-> i + 1, top_right |-> i + 2,
                            bottom_left |-> i + 8, bottom_right |-> i + 9]
                /\ C12_Spans(slope, 1..7, 8..14)
                /\ skirt = [top_left |-> i + 8, top_right |-> i + 9,
                            bottom_left |-> i + 15, bottom_right |-> i + 16]
                /\ C12_Spans(skirt, 8..14, 15..21)

\* By how many elements each operation grows the one buffer it fills.
C13_Growth ==
    [flat_hexagon_ring |-> 7, flat_hexagon_points |-> 8,
     flat_hexagon_normals |-> 8, flat_hexagon_indices |-> 21,
     bevel_hexagon_points |-> 22, bevel_hexagon_normals |-> 22,
     bevel_hexagon_indices |-> 105, quad_indices |-> 6]

\* buf is pre, element for element, followed by n more elements.
C13_Grown(buf, pre, n) ==
    /\ Len(buf) = Len(pre) + n
    /\ \A k \in 1..Len(pre) : buf[k] = pre[k]

\* C13: each of the eight buffer-filling operations leaves the elements its
\* buffer held where they were and appends exactly 7, 8, 8, 21, 22, 22, 105
\* and 6 elements (ring, points, normals, indices, bevel points, bevel
\* normals, bevel indices, quad); the other buffers are untouched, and the
\* indices appended are those appended to an empty buffer.
C13_AppendOnly ==
    /\ last.op \in {"flat_hexagon_ring", "flat_hexagon_points",
                    "bevel_hexagon_points"} =>
           /\ C13_Grown(bufPts, last.pts, C13_Growth[last.op])
           /\ bufNormals = last.normals
           /\ bufIdx = last.idx
    /\ last.op \in {"flat_hexagon_normals", "bevel_hexagon_normals"} =>
           /\ C13_Grown(bufNormals, last.normals, C13_Growth[last.op])
           /\ bufPts = last.pts
           /\ bufIdx = last.idx
    /\ last.op \in {"flat_hexagon_indices", "bevel_hexagon_indices",
                    "quad_indices"} =>
           /\ C13_Grown(bufIdx, last.idx, C13_Growth[last.op])
           /\ bufPts = last.pts
           /\ bufNormals = last.normals
    /\ last.op = "flat_hexagon_indices" =>
           Appended(bufIdx, last.idx) = flat_hexagon_indices(<<>>)
    /\ last.op = "bevel_hexagon_indices" =>
           Appended(bufIdx, last.idx) = bevel_hexagon_indices(<<>>)
    /\ last.op = "quad_indices" =>
           Appended(bufIdx, last.idx) =
               quad_indices(<<>>, inQuad[1], inQuad[2], inQuad[3], inQuad[4])
    /\ last.op \in {"center", "generate_hex_mesh"} =>
           /\ bufPts = last.pts
           /\ bufNormals = last.normals
           /\ bufIdx = last.idx

\* Normals appended to a buffer that already held the normals of a hexagon.
C13_Witness ==
    /\ last.op = "bevel_hexagon_normals"
    /\ Len(last.normals) = 8
    /\ Len(bufNormals) = 30
    /\ SubSeq(bufNormals, 1, 8) = last.normals

====
